---- MODULE Spec2Model ----
(***************************************************************************)
(* Chat backend (api/views.py, api/openai_service.py, api/models.py).      *)
(*                                                                         *)
(* The store is the two Django tables ChatSession and ChatMessage.  Every  *)
(* HTTP request is served by a worker; a worker's position inside a view   *)
(* is part of the state, and one step of a worker is one database          *)
(* statement or the one upstream HTTP call of the view, so that requests   *)
(* interleave the way separate Django workers do (autocommit, no           *)
(* transaction around a view).                                             *)
(*                                                                         *)
(* Strings are tuples of one-character strings, so that slicing            *)
(* (user_message[:30]) is computed.  Temperatures are in tenths.           *)
(***************************************************************************)
EXTENDS Integers, Sequences, FiniteSets, TLC

VARIABLES
    chats,        \* ChatSession table: id -> [user, title]
    messages,     \* ChatMessage table, in timestamp order
    nextChatId,   \* the next fresh ChatSession id (uuid4 never repeats)
    nextMsgId,    \* the next ChatMessage primary key (auto-increment)
    req,          \* per worker: the request it serves and its local variables
    started,      \* number of requests received so far
    sent_ok       \* ids of the sessions on which a send has returned 200

vars == <<chats, messages, nextChatId, nextMsgId, req, started, sent_ok>>

----------------------------------------------------------------------------
\* Bounds of the model.

\* Requests received in one behaviour.
MaxRequests == 2

\* The workers that serve requests concurrently.
Workers == {1, 2}

----------------------------------------------------------------------------
\* Program constants.

\* views.py:94 and views.py:245, the slice [:5].
WindowSize == 5

\* views.py:116, the slice [:30].
TitleLen == 30

----------------------------------------------------------------------------
\* JSON values of a request body or an upstream response.

JNull == [t |-> "null"]
JNum(n) == [t |-> "num", n |-> n]
JStr(s) == [t |-> "str", s |-> s]
\* A string that is the canonical text of the UUID of session i.
JUuid(i) == [t |-> "uuid", id |-> i]

\* Python truthiness of a JSON value, as all([...]) tests it.
Truthy(v) ==
    CASE v.t = "null" -> FALSE
      [] v.t = "num"  -> v.n # 0
      [] v.t = "str"  -> v.s # <<>>
      [] v.t = "uuid" -> TRUE

Min(a, b) == IF a <= b THEN a ELSE b

\* s[:n]
Take(s, n) == SubSeq(s, 1, Min(n, Len(s)))

\* s[-n:] of a sequence
LastN(s, n) == SubSeq(s, Len(s) - Min(n, Len(s)) + 1, Len(s))

Reverse(s) == [i \in 1..Len(s) |-> s[Len(s) + 1 - i]]

\* Texts.
Hi == <<"H", "i">>
LongText == [i \in 1..(TitleLen + 2) |-> IF i <= TitleLen THEN "a" ELSE "b"]
Hello == <<"H", "e", "l", "l", "o">>
NewAnswer == <<"N", "e", "w">>
StrSeven == <<"0", ".", "7">>
StrHot == <<"h", "o", "t">>
M1 == <<"m", "1">>
M2 == <<"m", "2">>
Ghost == <<"g", "h", "o", "s", "t">>
SystemPrompt == <<"S", "Y", "S">>

\* float(temperature), views.py:83: a number is itself, a numeric string
\* parses, anything else raises ValueError or TypeError.
FloatOk(v) ==
    \/ v.t = "num"
    \/ v.t = "str" /\ v.s = StrSeven

Float(v) == IF v.t = "num" THEN v.n ELSE 7

\* UUID(chat_id), views.py:88: ValueError unless the text is a UUID.
UuidOk(v) == v.t = "uuid"

----------------------------------------------------------------------------
\* The OpenAIModel table: name -> active.  m1 is active, m2 is inactive,
\* no row is named ghost.
OpenAIModels == {[name |-> M1, active |-> TRUE], [name |-> M2, active |-> FALSE]}


----------------------------------------------------------------------------
\* Upstream HTTP responses (the JSON body of a 200 reply).  A key that is
\* absent is told apart from a key whose value is null.

Choice(has_message, has_content, content) ==
    [has_message |-> has_message, has_content |-> has_content, content |-> content]

Json(has_choices, choices) == [has_choices |-> has_choices, choices |-> choices]

TextReply(t) == Json(TRUE, <<Choice(TRUE, TRUE, JStr(t))>>)
NoChoicesKey == Json(FALSE, <<>>)
EmptyChoices == Json(TRUE, <<>>)
NoMessageKey == Json(TRUE, <<Choice(FALSE, FALSE, JNull)>>)
NoContentKey == Json(TRUE, <<Choice(TRUE, FALSE, JNull)>>)
NullContent == Json(TRUE, <<Choice(TRUE, TRUE, JNull)>>)

\* What requests.post and raise_for_status can do: raise RequestException,
\* or hand back a JSON body.
PostOutcomes ==
    {[raised |-> TRUE, json |-> NoChoicesKey]} \cup
    {[raised |-> FALSE, json |-> j] :
        j \in {TextReply(NewAnswer), NoChoicesKey, EmptyChoices, NoMessageKey,
               NoContentKey, NullContent}}

\* openai_response.get("choices", [{}])[0].get("message", {}).get("content", "")
\* (views.py:106 and views.py:266): IndexError on an empty list, the default
\* "" for an absent key, None for a null content.
ExtractReply(json) ==
    LET choices == IF json.has_choices THEN json.choices
                   ELSE <<Choice(FALSE, FALSE, JNull)>>
    IN  IF Len(choices) = 0
        THEN [raised |-> "IndexError", value |-> JNull]
        ELSE LET first == choices[1]
             IN  IF first.has_message /\ first.has_content
                 THEN [raised |-> "none", value |-> first.content]
                 ELSE [raised |-> "none", value |-> JStr(<<>>)]

\* Variant of ModelIsActive that drops active=True from the lookup.
ModelIsActive_AnyRow(model_name) ==
    \E m \in OpenAIModels : m.name = model_name

\* OpenAIModel.objects.get(name=model_name, active=True), openai_service.py:33.
ModelIsActive(model_name) ==
    \E m \in OpenAIModels : m.name = model_name /\ m.active

\* OpenAIModel.objects.filter(active=True).first() finds a row,
\* openai_service.py:37-38.
SomeModelIsActive == \E m \in OpenAIModels : m.active

\* Variant of get_openai_response that posts a second time when the first
\* post fails at transport level.
get_openai_response_Retry(model_name, outcome) ==
    IF \/ model_name # <<>> /\ ~ModelIsActive(model_name)
       \/ model_name = <<>> /\ ~SomeModelIsActive
    THEN [raised |-> "ValueError", posts |-> 0, json |-> NoChoicesKey]
    ELSE IF outcome.raised
         THEN [raised |-> "RequestException", posts |-> 2, json |-> NoChoicesKey]
         ELSE [raised |-> "none", posts |-> 1, json |-> outcome.json]

\* get_openai_response (openai_service.py:11-68): a model name that is given
\* is looked up among the active rows, an empty or absent one falls back on
\* the first active row; either lookup raises ValueError before anything is
\* sent; otherwise one POST is made and its outcome is returned or re-raised.
get_openai_response(model_name, outcome) ==
    IF \/ model_name # <<>> /\ ~ModelIsActive(model_name)
       \/ model_name = <<>> /\ ~SomeModelIsActive
    THEN [raised |-> "ValueError", posts |-> 0, json |-> NoChoicesKey]
    ELSE IF outcome.raised
         THEN [raised |-> "RequestException", posts |-> 1, json |-> NoChoicesKey]
         ELSE [raised |-> "none", posts |-> 1, json |-> outcome.json]

----------------------------------------------------------------------------
\* Rows and queries.

NoRow == [id |-> 0, chat |-> 0, sender |-> "none", content |-> <<>>,
          model_name |-> <<>>, temperature |-> 0, regenerated |-> FALSE]

NoChat == [id |-> 0, user |-> "none", title |-> <<>>]

Row(id, chat, sender, content, model_name, temperature) ==
    [id |-> id, chat |-> chat, sender |-> sender, content |-> content,
     model_name |-> model_name, temperature |-> temperature, regenerated |-> FALSE]

\* ChatSession.objects.filter(id=chat_id, user=user).exists()
ChatFound(chat_id, user) ==
    chat_id \in DOMAIN chats /\ chats[chat_id].user = user

\* chat.messages, oldest first.
MessagesOf(chat_id) == SelectSeq(messages, LAMBDA m : m.chat = chat_id)

Live(rows) == SelectSeq(rows, LAMBDA m : ~m.regenerated)

\* chat.messages.order_by("-timestamp")[:5], views.py:94 (newest first).
RecentOfSend(chat_id) == Reverse(LastN(MessagesOf(chat_id), WindowSize))

\* chat.messages.filter(regenerated=False).order_by("-timestamp")[:5],
\* views.py:245 (newest first).
RecentOfRegenerate(chat_id) == Reverse(LastN(Live(MessagesOf(chat_id)), WindowSize))

\* Variant of AiRows that drops regenerated=False from the filter.
AiRows_AnyFlag(chat_id) ==
    SelectSeq(MessagesOf(chat_id), LAMBDA m : m.sender = "ai")

\* chat.messages.filter(sender="ai", regenerated=False)
\*     .order_by("-timestamp").first(), views.py:239.
AiRows(chat_id) == SelectSeq(Live(MessagesOf(chat_id)), LAMBDA m : m.sender = "ai")

LastAiMessage(chat_id) ==
    IF AiRows(chat_id) = <<>> THEN NoRow ELSE AiRows(chat_id)[Len(AiRows(chat_id))]

\* "assistant" if msg.sender == "ai" else msg.sender, views.py:98.
RoleOf(sender) == IF sender = "ai" THEN "assistant" ELSE sender

RoleMessage(role, content) == [role |-> role, content |-> content]

\* Variant of Window that keeps the order of the query (newest first).
Window_NewestFirst(recent) ==
    [i \in 1..Len(recent) |-> RoleMessage(RoleOf(recent[i].sender), recent[i].content)]

\* The list comprehension over reversed(recent_messages), views.py:97-100.
Window(recent) ==
    [i \in 1..Len(recent) |->
        RoleMessage(RoleOf(Reverse(recent)[i].sender), Reverse(recent)[i].content)]

\* The messages list of generate_response, views.py:95-102.
SendContext(recent, user_message) ==
    <<RoleMessage("system", SystemPrompt)>> \o Window(recent)
        \o <<RoleMessage("user", user_message)>>

\* Variant of HistoryValues that drops the filter on regenerated.
HistoryValues_Unfiltered(chat_id) ==
    LET rows == MessagesOf(chat_id)
    IN  [i \in 1..Len(rows) |->
            [sender |-> rows[i].sender, content |-> rows[i].content,
             model_name |-> rows[i].model_name, temperature |-> rows[i].temperature]]

\* chat.messages.filter(regenerated=False).values(...), views.py:188-190.
HistoryValues(chat_id) ==
    LET rows == Live(MessagesOf(chat_id))
    IN  [i \in 1..Len(rows) |->
            [sender |-> rows[i].sender, content |-> rows[i].content,
             model_name |-> rows[i].model_name, temperature |-> rows[i].temperature]]

\* ChatMessage.objects.create(chat=chat, ...): the INSERT fails on the
\* foreign key when the session row is gone, and on NOT NULL when the
\* content is None.
CanInsert(chat_id, content) == chat_id \in DOMAIN chats /\ content.t = "str"


----------------------------------------------------------------------------
\* Responses and the local variables of a view.

NoResp == [status |-> 0, error |-> "", content |-> JNull, chat_id |-> 0,
           messages |-> <<>>, new_chat_id |-> 0, chats |-> {}]

\* JsonResponse({"error": error}, status=status), and the 404 and 500 pages
\* Django itself answers with.
ErrorResponse(status, error) == [NoResp EXCEPT !.status = status, !.error = error]

\* Request bodies of generate_response.
Body(chat_id, message, model, temperature) ==
    [chat_id |-> chat_id, message |-> message, model |-> model,
     temperature |-> temperature]

\* The views that are addressed by URL read no body.
NoBody == Body(JNull, JNull, JNull, JNull)

Idle == [pc |-> "idle", op |-> "none", user |-> "none", chat_id |-> 0,
         body |-> NoBody, message |-> <<>>, model_name |-> <<>>, temperature |-> 0,
         chat |-> NoChat, recent_messages |-> <<>>,
         last_ai_message |-> NoRow, last_user_message |-> NoRow,
         ai_reply |-> JNull, resp |-> NoResp, logged |-> "none",
         upstream |-> 0, created |-> 0]

\* The view returns: its locals die, the request, the response and what the
\* request did (upstream calls made, rows inserted, exception logged) stay on
\* record.
Return(r, resp, logged) ==
    [Idle EXCEPT !.pc = "done", !.op = r.op, !.user = r.user,
                 !.chat_id = r.chat_id, !.body = r.body,
                 !.resp = resp, !.logged = logged,
                 !.upstream = r.upstream, !.created = r.created]

Free(w) == req[w].pc \in {"idle", "done"}

InFlight(w) == ~Free(w)

\* A new request goes to the first worker that is free (which free worker
\* serves it makes no difference to the request).
FirstFree(w) == Free(w) /\ \A v \in Workers : Free(v) => ~(v < w)

Accept(w) == FirstFree(w) /\ started < MaxRequests /\ started' = started + 1

\* Session ids a client may name: the two sessions of the initial store and
\* the first id that is fresh.
ChatIds == {1, 2, 3}

\* Who asks for which session: alice for her own, for bob's and for one that
\* is not there (until a delete creates it); bob for his own.  The bodies
\* above are sent by alice.
Callers == {<<"alice", c>> : c \in ChatIds} \cup {<<"bob", 2>>}

ValidPayloads ==
    {<<JStr(Hi), JStr(M1), JNum(2)>>,
     <<JStr(LongText), JStr(M1), JStr(StrSeven)>>,
     <<JStr(Hi), JStr(M2), JNum(2)>>,
     <<JStr(Hi), JStr(Ghost), JStr(StrSeven)>>}

Bodies ==
    {Body(JUuid(c), p[1], p[2], p[3]) : c \in ChatIds, p \in ValidPayloads} \cup
    {Body(JUuid(1), JStr(Hi), JStr(M1), t) : t \in {JNull, JNum(0), JStr(StrHot)}} \cup
    {Body(JUuid(1), m, JStr(M1), JNum(2)) : m \in {JNull, JStr(<<>>)}} \cup
    {Body(JUuid(1), JStr(Hi), JNull, JNum(2))} \cup
    {Body(c, JStr(Hi), JStr(M1), JNum(2)) : c \in {JNull, JStr(<<"x">>)}}

----------------------------------------------------------------------------
\* generate_response, views.py:60-125.

\* views.py:73-92: parse and validate the body, then get_object_or_404.
\* Http404 is raised inside the try block, where "except Exception" catches
\* it (views.py:123).
generate_response_begin(w, user, body) ==
    /\ Accept(w)
    /\ LET r0 == [Idle EXCEPT !.op = "send", !.user = user, !.body = body]
       IN  req' = [req EXCEPT ![w] =
             IF ~(Truthy(body.chat_id) /\ Truthy(body.message)
                    /\ Truthy(body.model) /\ Truthy(body.temperature))
             THEN Return(r0, ErrorResponse(400, "Missing required fields"), "none")
             ELSE IF ~FloatOk(body.temperature)
             THEN Return(r0, ErrorResponse(400, "Invalid temperature value provided"), "none")
             ELSE IF ~UuidOk(body.chat_id)
             THEN Return(r0, ErrorResponse(400, "Invalid chat ID format"), "none")
             ELSE LET r1 == [r0 EXCEPT !.chat_id = body.chat_id.id]
                  IN  IF ~ChatFound(body.chat_id.id, user)
                      THEN Return(r1, ErrorResponse(500,
                               "An error occurred while generating the response."),
                               "Http404")
                      ELSE [r1 EXCEPT !.pc = "s_recent",
                                      !.message = body.message.s,
                                      !.model_name = body.model.s,
                                      !.temperature = Float(body.temperature),
                                      !.chat = [id |-> body.chat_id.id, user |-> user,
                                                title |-> chats[body.chat_id.id].title]]]
    /\ UNCHANGED <<chats, messages, nextChatId, nextMsgId, sent_ok>>

\* views.py:94-102: the window query is evaluated and the context is built.
generate_response_recent(w) ==
    /\ req[w].pc = "s_recent"
    /\ req' = [req EXCEPT ![w].pc = "s_call",
                          ![w].recent_messages = RecentOfSend(req[w].chat.id)]
    /\ UNCHANGED <<chats, messages, nextChatId, nextMsgId, started, sent_ok>>

\* Variant of generate_response_call that has no way out when the gateway
\* or the extraction raises.
generate_response_call_NoErrorExit(w) ==
    /\ req[w].pc = "s_call"
    /\ \E outcome \in PostOutcomes :
         LET r == req[w]
             g == get_openai_response(r.model_name, outcome)
             r1 == [r EXCEPT !.upstream = r.upstream + g.posts,
                             !.recent_messages = <<>>]
             x == ExtractReply(g.json)
         IN  /\ g.raised = "none" /\ x.raised = "none"
             /\ req' = [req EXCEPT ![w] = [r1 EXCEPT !.pc = "s_user", !.ai_reply = x.value]]
    /\ UNCHANGED <<chats, messages, nextChatId, nextMsgId, started, sent_ok>>

\* views.py:104-106: the gateway call and the extraction of the reply.
generate_response_call(w) ==
    /\ req[w].pc = "s_call"
    /\ \E outcome \in PostOutcomes :
         LET r == req[w]
             g == get_openai_response(r.model_name, outcome)
             r1 == [r EXCEPT !.upstream = r.upstream + g.posts,
                             !.recent_messages = <<>>]
             x == ExtractReply(g.json)
             failure == ErrorResponse(500,
                            "An error occurred while generating the response.")
         IN  req' = [req EXCEPT ![w] =
               IF g.raised # "none" THEN Return(r1, failure, g.raised)
               ELSE IF x.raised # "none" THEN Return(r1, failure, x.raised)
               ELSE [r1 EXCEPT !.pc = "s_user", !.ai_reply = x.value]]
    /\ UNCHANGED <<chats, messages, nextChatId, nextMsgId, started, sent_ok>>

\* views.py:108-110: the user row is inserted.
generate_response_create_user(w) ==
    /\ req[w].pc = "s_user"
    /\ LET r == req[w]
       IN  IF CanInsert(r.chat.id, JStr(r.message))
           THEN /\ messages' = Append(messages,
                      Row(nextMsgId, r.chat.id, "user", r.message, r.model_name,
                          r.temperature))
                /\ nextMsgId' = nextMsgId + 1
                /\ req' = [req EXCEPT ![w].pc = "s_ai", ![w].created = r.created + 1]
           ELSE /\ req' = [req EXCEPT ![w] = Return(r, ErrorResponse(500,
                      "An error occurred while generating the response."),
                      "IntegrityError")]
                /\ UNCHANGED <<messages, nextMsgId>>
    /\ UNCHANGED <<chats, nextChatId, started, sent_ok>>

\* views.py:111-113: the ai row is inserted.
generate_response_create_ai(w) ==
    /\ req[w].pc = "s_ai"
    /\ LET r == req[w]
       IN  IF CanInsert(r.chat.id, r.ai_reply)
           THEN /\ messages' = Append(messages,
                      Row(nextMsgId, r.chat.id, "ai", r.ai_reply.s, r.model_name,
                          r.temperature))
                /\ nextMsgId' = nextMsgId + 1
                /\ req' = [req EXCEPT ![w].pc = "s_title", ![w].created = r.created + 1]
           ELSE /\ req' = [req EXCEPT ![w] = Return(r, ErrorResponse(500,
                      "An error occurred while generating the response."),
                      "IntegrityError")]
                /\ UNCHANGED <<messages, nextMsgId>>
    /\ UNCHANGED <<chats, nextChatId, started, sent_ok>>

\* chat.save() of a session object read earlier: every column is written
\* from the object; an UPDATE that matches no row is followed by an INSERT.
SaveChat(chat) == [c \in DOMAIN chats \cup {chat.id} |->
                      IF c = chat.id THEN [user |-> chat.user, title |-> chat.title]
                      ELSE chats[c]]

\* views.py:115-119: the title is tested on the session object read at
\* views.py:92, saved if that was empty, and the reply is returned.
generate_response_title(w) ==
    /\ req[w].pc = "s_title"
    /\ LET r == req[w]
       IN  /\ chats' = IF r.chat.title = <<>>
                       THEN SaveChat([r.chat EXCEPT !.title = Take(r.message, TitleLen)])
                       ELSE chats
           /\ req' = [req EXCEPT ![w] = Return(r,
                        [NoResp EXCEPT !.status = 200, !.content = r.ai_reply,
                                       !.chat_id = r.chat.id], "none")]
           /\ sent_ok' = sent_ok \cup {r.chat.id}
    /\ UNCHANGED <<messages, nextChatId, nextMsgId, started>>


----------------------------------------------------------------------------
\* regenerate_message, views.py:224-280.

\* views.py:237: get_object_or_404, outside any try block.
regenerate_message_begin(w, user, chat_id) ==
    /\ Accept(w)
    /\ LET r0 == [Idle EXCEPT !.op = "regenerate", !.user = user, !.chat_id = chat_id]
       IN  req' = [req EXCEPT ![w] =
             IF ~ChatFound(chat_id, user)
             THEN Return(r0, ErrorResponse(404, "Not Found"), "none")
             ELSE [r0 EXCEPT !.pc = "r_select",
                             !.chat = [id |-> chat_id, user |-> user,
                                       title |-> chats[chat_id].title]]]
    /\ UNCHANGED <<chats, messages, nextChatId, nextMsgId, sent_ok>>

\* views.py:239-241: the newest ai row that is not regenerated, or 400.
regenerate_message_select(w) ==
    /\ req[w].pc = "r_select"
    /\ LET r == req[w]
           last == LastAiMessage(r.chat.id)
       IN  req' = [req EXCEPT ![w] =
             IF last = NoRow
             THEN Return(r, ErrorResponse(400, "No AI message to regenerate."), "none")
             ELSE [r EXCEPT !.pc = "r_mark", !.last_ai_message = last]]
    /\ UNCHANGED <<chats, messages, nextChatId, nextMsgId, started, sent_ok>>

\* Variant of SaveMessage in which the object is changed in memory only.
SaveMessage_Unsaved(msg) == messages

\* msg.save() of a row object read earlier: every column is written from the
\* object; an UPDATE that matches no row is followed by an INSERT, which
\* takes a new timestamp.
SaveMessage(msg) ==
    IF \E i \in 1..Len(messages) : messages[i].id = msg.id
    THEN [i \in 1..Len(messages) |->
            IF messages[i].id = msg.id THEN msg ELSE messages[i]]
    ELSE Append(messages, msg)

\* views.py:242-243: the flag is set on the object and the object is saved.
\* The INSERT of a row whose session is gone fails on the foreign key, and
\* nothing catches it here.
regenerate_message_mark(w) ==
    /\ req[w].pc = "r_mark"
    /\ LET r == req[w]
           marked == [r.last_ai_message EXCEPT !.regenerated = TRUE]
           stored == \E i \in 1..Len(messages) : messages[i].id = marked.id
       IN  IF stored \/ marked.chat \in DOMAIN chats
           THEN /\ messages' = SaveMessage(marked)
                /\ req' = [req EXCEPT ![w].pc = "r_recent",
                                      ![w].last_ai_message = marked]
           ELSE /\ req' = [req EXCEPT ![w] =
                      Return(r, ErrorResponse(500, "Server Error"), "IntegrityError")]
                /\ UNCHANGED messages
    /\ UNCHANGED <<chats, nextChatId, nextMsgId, started, sent_ok>>

\* next((msg for msg in reversed(recent_messages) if msg.sender == "user"), None),
\* views.py:254: the first user row met when walking the window oldest first.
FirstUserOf(rows) ==
    LET users == SelectSeq(rows, LAMBDA m : m.sender = "user")
    IN  IF users = <<>> THEN NoRow ELSE users[1]

\* views.py:245-258: the window of live rows is read, the prompt is looked
\* up in it, or 400.
regenerate_message_recent(w) ==
    /\ req[w].pc = "r_recent"
    /\ LET r == req[w]
           recent == RecentOfRegenerate(r.chat.id)
           last_user == FirstUserOf(Reverse(recent))
       IN  req' = [req EXCEPT ![w] =
             IF last_user = NoRow
             THEN Return(r, ErrorResponse(400, "No user message found for regeneration."),
                         "none")
             ELSE [r EXCEPT !.pc = "r_call", !.recent_messages = recent,
                            !.last_user_message = last_user]]
    /\ UNCHANGED <<chats, messages, nextChatId, nextMsgId, started, sent_ok>>

\* The messages list of regenerate_message, views.py:246-256.
RegenerateContext(recent, last_user) ==
    <<RoleMessage("system", SystemPrompt)>> \o Window(recent)
        \o <<RoleMessage("user", last_user.content)>>

\* views.py:260-266: the gateway call with the prompt row's parameters.
regenerate_message_call(w) ==
    /\ req[w].pc = "r_call"
    /\ \E outcome \in PostOutcomes :
         LET r == req[w]
             g == get_openai_response(r.last_user_message.model_name, outcome)
             r1 == [r EXCEPT !.upstream = r.upstream + g.posts,
                             !.recent_messages = <<>>]
             x == ExtractReply(g.json)
             failure == ErrorResponse(500,
                            "An error occurred while regenerating the message.")
         IN  req' = [req EXCEPT ![w] =
               IF g.raised # "none" THEN Return(r1, failure, g.raised)
               ELSE IF x.raised # "none" THEN Return(r1, failure, x.raised)
               ELSE [r1 EXCEPT !.pc = "r_create", !.ai_reply = x.value]]
    /\ UNCHANGED <<chats, messages, nextChatId, nextMsgId, started, sent_ok>>

\* views.py:268-280: the new ai row is inserted and its content returned.
regenerate_message_create(w) ==
    /\ req[w].pc = "r_create"
    /\ LET r == req[w]
       IN  IF CanInsert(r.chat.id, r.ai_reply)
           THEN /\ messages' = Append(messages,
                      Row(nextMsgId, r.chat.id, "ai", r.ai_reply.s,
                          r.last_user_message.model_name,
                          r.last_user_message.temperature))
                /\ nextMsgId' = nextMsgId + 1
                /\ req' = [req EXCEPT ![w] =
                      Return([r EXCEPT !.created = r.created + 1],
                             [NoResp EXCEPT !.status = 200, !.content = r.ai_reply],
                             "none")]
           ELSE /\ req' = [req EXCEPT ![w] = Return(r, ErrorResponse(500,
                      "An error occurred while regenerating the message."),
                      "IntegrityError")]
                /\ UNCHANGED <<messages, nextMsgId>>
    /\ UNCHANGED <<chats, nextChatId, started, sent_ok>>

----------------------------------------------------------------------------
\* create_new_chat, views.py:147-158.

\* The session table with a new empty session of user under a fresh id.
WithNewChat(user) ==
    [c \in DOMAIN chats \cup {nextChatId} |->
        IF c = nextChatId THEN [user |-> user, title |-> <<>>] ELSE chats[c]]

\* views.py:157-158: one INSERT, and the new id is returned.
create_new_chat(w, user) ==
    /\ Accept(w)
    /\ chats' = WithNewChat(user)
    /\ nextChatId' = nextChatId + 1
    /\ req' = [req EXCEPT ![w] =
          Return([Idle EXCEPT !.op = "create", !.user = user, !.chat_id = nextChatId],
                 [NoResp EXCEPT !.status = 200, !.chat_id = nextChatId], "none")]
    /\ UNCHANGED <<messages, nextMsgId, sent_ok>>

----------------------------------------------------------------------------
\* list_chats, views.py:161-173.

\* str(chat["id"]): session ids are written with one digit here.
IdText(id) == <<"0", "1", "2", "3", "4", "5", "6", "7", "8", "9">>[id + 1]

\* chat["title"] or f"Chat {chat['id']}", views.py:172.
ChatTitle(id, title) ==
    IF title # <<>> THEN title ELSE <<"C", "h", "a", "t", " ", IdText(id)>>

\* The entries of the "chats" list, views.py:171-172.  The query has no
\* order_by, so the entries are kept as a set.
UserChats(user) ==
    {[chatId |-> c, chatTitle |-> ChatTitle(c, chats[c].title)] :
        c \in {d \in DOMAIN chats : chats[d].user = user}}

\* views.py:171-173: one query, and the list is returned.
list_chats(w, user) ==
    /\ Accept(w)
    /\ req' = [req EXCEPT ![w] =
          Return([Idle EXCEPT !.op = "list", !.user = user],
                 [NoResp EXCEPT !.status = 200, !.chats = UserChats(user)], "none")]
    /\ UNCHANGED <<chats, messages, nextChatId, nextMsgId, sent_ok>>

----------------------------------------------------------------------------
\* retrieve_chat_history, views.py:176-191.

\* views.py:187: get_object_or_404.
retrieve_chat_history_begin(w, user, chat_id) ==
    /\ Accept(w)
    /\ LET r0 == [Idle EXCEPT !.op = "history", !.user = user, !.chat_id = chat_id]
       IN  req' = [req EXCEPT ![w] =
             IF ~ChatFound(chat_id, user)
             THEN Return(r0, ErrorResponse(404, "Not Found"), "none")
             ELSE [r0 EXCEPT !.pc = "h_query",
                             !.chat = [id |-> chat_id, user |-> user,
                                       title |-> chats[chat_id].title]]]
    /\ UNCHANGED <<chats, messages, nextChatId, nextMsgId, sent_ok>>

\* views.py:188-191: the rows that are not regenerated are returned.
retrieve_chat_history_query(w) ==
    /\ req[w].pc = "h_query"
    /\ req' = [req EXCEPT ![w] = Return(req[w],
                 [NoResp EXCEPT !.status = 200,
                                !.messages = HistoryValues(req[w].chat.id)], "none")]
    /\ UNCHANGED <<chats, messages, nextChatId, nextMsgId, started, sent_ok>>

----------------------------------------------------------------------------
\* delete_chat, views.py:195-220.

\* views.py:208: get_object_or_404.
delete_chat_begin(w, user, chat_id) ==
    /\ Accept(w)
    /\ LET r0 == [Idle EXCEPT !.op = "delete", !.user = user, !.chat_id = chat_id]
       IN  req' = [req EXCEPT ![w] =
             IF ~ChatFound(chat_id, user)
             THEN Return(r0, ErrorResponse(404, "Not Found"), "none")
             ELSE [r0 EXCEPT !.pc = "d_delete",
                             !.chat = [id |-> chat_id, user |-> user,
                                       title |-> chats[chat_id].title]]]
    /\ UNCHANGED <<chats, messages, nextChatId, nextMsgId, sent_ok>>

\* Variant of Cascade in which deleting a session leaves its rows behind.
Cascade_Nothing(chat_id) == messages

\* on_delete=models.CASCADE of ChatMessage.chat, models.py:60: the rows that
\* are left when session chat_id is deleted.
Cascade(chat_id) == SelectSeq(messages, LAMBDA m : m.chat # chat_id)

\* views.py:209: chat.delete() removes the session row and, by the CASCADE
\* of ChatMessage.chat (models.py:60), its message rows.
delete_chat_delete(w) ==
    /\ req[w].pc = "d_delete"
    /\ chats' = [c \in DOMAIN chats \ {req[w].chat.id} |-> chats[c]]
    /\ messages' = Cascade(req[w].chat.id)
    /\ req' = [req EXCEPT ![w].pc = "d_exists"]
    /\ UNCHANGED <<nextChatId, nextMsgId, started, sent_ok>>

\* views.py:211-220: a fresh empty session when the user has none left.
delete_chat_exists(w) ==
    /\ req[w].pc = "d_exists"
    /\ LET r == req[w]
           has_chats == \E c \in DOMAIN chats : chats[c].user = r.user
       IN  IF has_chats
           THEN /\ req' = [req EXCEPT ![w] =
                      Return(r, [NoResp EXCEPT !.status = 200], "none")]
                /\ UNCHANGED <<chats, nextChatId>>
           ELSE /\ chats' = WithNewChat(r.user)
                /\ nextChatId' = nextChatId + 1
                /\ req' = [req EXCEPT ![w] =
                      Return(r, [NoResp EXCEPT !.status = 200,
                                               !.new_chat_id = nextChatId], "none")]
    /\ UNCHANGED <<messages, nextMsgId, started, sent_ok>>

----------------------------------------------------------------------------
\* The store after construction: alice owns session 1 and bob session 2.
\* Session 1 is new, or already holds one completed exchange, made with a
\* model that was active at the time.

FirstExchange(model_name) ==
    <<Row(1, 1, "user", Hi, model_name, 7), Row(2, 1, "ai", Hello, model_name, 7)>>

Init ==
    /\ \E history \in {<<>>, FirstExchange(M1), FirstExchange(M2)} :
         /\ messages = history
         /\ chats = (1 :> [user |-> "alice",
                           title |-> IF history = <<>> THEN <<>> ELSE Take(Hi, TitleLen)])
                    @@ (2 :> [user |-> "bob", title |-> <<>>])
         /\ sent_ok = IF history = <<>> THEN {} ELSE {1}
    /\ nextChatId = 3
    /\ nextMsgId = 3
    /\ req = [w \in Workers |-> Idle]
    /\ started = 0

Next ==
    \/ \E w \in Workers, body \in Bodies : generate_response_begin(w, "alice", body)
    \/ \E w \in Workers : generate_response_recent(w)
    \/ \E w \in Workers : generate_response_call(w)
    \/ \E w \in Workers : generate_response_create_user(w)
    \/ \E w \in Workers : generate_response_create_ai(w)
    \/ \E w \in Workers : generate_response_title(w)
    \/ \E w \in Workers, c \in Callers : regenerate_message_begin(w, c[1], c[2])
    \/ \E w \in Workers : regenerate_message_select(w)
    \/ \E w \in Workers : regenerate_message_mark(w)
    \/ \E w \in Workers : regenerate_message_recent(w)
    \/ \E w \in Workers : regenerate_message_call(w)
    \/ \E w \in Workers : regenerate_message_create(w)
    \/ \E w \in Workers : create_new_chat(w, "alice")
    \/ \E w \in Workers : list_chats(w, "alice")
    \/ \E w \in Workers, c \in Callers : retrieve_chat_history_begin(w, c[1], c[2])
    \/ \E w \in Workers : retrieve_chat_history_query(w)
    \/ \E w \in Workers, c \in Callers : delete_chat_begin(w, c[1], c[2])
    \/ \E w \in Workers : delete_chat_delete(w)
    \/ \E w \in Workers : delete_chat_exists(w)

Spec == Init /\ [][Next]_vars

\* A store with longer histories of session 1, each one left by earlier
\* requests: three completed exchanges (more rows than the window holds); an
\* exchange whose answer was regenerated once; and an exchange whose answer
\* was regenerated by several requests at the same time, each of which
\* inserted its own answer, so that live answers alone fill a window.
ThreeExchanges ==
    <<Row(1, 1, "user", Hi, M1, 7), Row(2, 1, "ai", Hello, M1, 7),
      Row(3, 1, "user", LongText, M1, 2), Row(4, 1, "ai", NewAnswer, M1, 2),
      Row(5, 1, "user", Hi, M1, 2), Row(6, 1, "ai", Hello, M1, 2)>>

RegeneratedOnce ==
    <<Row(1, 1, "user", Hi, M1, 7),
      [Row(2, 1, "ai", Hello, M1, 7) EXCEPT !.regenerated = TRUE],
      Row(3, 1, "ai", NewAnswer, M1, 7)>>

RegeneratedAtOnce ==
    <<Row(1, 1, "user", Hi, M1, 7),
      [Row(2, 1, "ai", Hello, M1, 7) EXCEPT !.regenerated = TRUE]>>
    \o [i \in 1..(WindowSize + 1) |-> Row(i + 2, 1, "ai", NewAnswer, M1, 7)]

InitLong ==
    /\ messages \in {ThreeExchanges, RegeneratedOnce, RegeneratedAtOnce}
    /\ chats = (1 :> [user |-> "alice", title |-> Take(Hi, TitleLen)])
               @@ (2 :> [user |-> "bob", title |-> <<>>])
    /\ sent_ok = {1}
    /\ nextChatId = 3
    /\ nextMsgId = WindowSize + 4
    /\ req = [w \in Workers |-> Idle]
    /\ started = 0

SpecLong == InitLong /\ [][Next]_vars

\* The steps that carry on the request a worker is serving.  A view is a
\* plain function run by its worker thread: once called it runs on until it
\* returns or raises, and each statement of it, the gateway call included,
\* returns or raises.
Proceed(w) ==
    \/ generate_response_recent(w)
    \/ generate_response_call(w)
    \/ generate_response_create_user(w)
    \/ generate_response_create_ai(w)
    \/ generate_response_title(w)
    \/ regenerate_message_select(w)
    \/ regenerate_message_mark(w)
    \/ regenerate_message_recent(w)
    \/ regenerate_message_call(w)
    \/ regenerate_message_create(w)
    \/ retrieve_chat_history_query(w)
    \/ delete_chat_delete(w)
    \/ delete_chat_exists(w)

\* The store of Init in which session 1 holds one completed exchange.
InitLive ==
    /\ messages = FirstExchange(M1)
    /\ chats = (1 :> [user |-> "alice", title |-> Take(Hi, TitleLen)])
               @@ (2 :> [user |-> "bob", title |-> <<>>])
    /\ sent_ok = {1}
    /\ nextChatId = 3
    /\ nextMsgId = 3
    /\ req = [w \in Workers |-> Idle]
    /\ started = 0

LiveSpec == InitLive /\ [][Next]_vars /\ \A w \in Workers : WF_vars(Proceed(w))


----------------------------------------------------------------------------
\* Properties.

\* A send or regenerate request that has resolved its session and has not
\* yet returned.
Proceeding(w) == InFlight(w) /\ req[w].op \in {"send", "regenerate"}

\* Some request on session c has not yet returned.
BusyOn(c) == \E w \in Workers : InFlight(w) /\ req[w].chat.id = c

\* The rows of session c, among rows, whose regenerated flag is false.
LiveRowsIn(rows, c) == SelectSeq(rows, LAMBDA m : m.chat = c /\ m.regenerated = FALSE)

UserRowsOf(c) == SelectSeq(messages, LAMBDA m : m.chat = c /\ m.sender = "user")

\* C1: single flight per session: two send-or-regenerate requests of the
\* same principal on the same session are never both past the guard (the
\* second one is turned away with AlreadyProcessing instead).
C1_SingleFlight ==
    \A w, v \in Workers :
        (w # v /\ Proceeding(w) /\ Proceeding(v) /\ req[w].user = req[v].user)
            => req[w].chat.id # req[v].chat.id

\* C2: the window a send hands to the gateway holds no row whose
\* regenerated flag is true.
C2_SendContextExcludesRegenerated ==
    \A w \in Workers :
        req[w].pc = "s_call" =>
            \A i \in 1..Len(req[w].recent_messages) :
                ~req[w].recent_messages[i].regenerated

\* C3: while no request is in flight on a session, its title is set exactly
\* if a send on it has succeeded, and a set title is the first 30 characters
\* of the session's first user message.
C3_TitleIffSentAndFromFirstUserMessage ==
    \A c \in DOMAIN chats :
        ~BusyOn(c) =>
            /\ (chats[c].title # <<>>) <=> (c \in sent_ok)
            /\ chats[c].title # <<>> =>
                 /\ UserRowsOf(c) # <<>>
                 /\ chats[c].title = Take(UserRowsOf(c)[1].content, TitleLen)

\* C4: a title that is set is never written again, by no step of any send.
C4_TitleWrittenOnce ==
    [][\A c \in DOMAIN chats :
          (chats[c].title # <<>> /\ c \in DOMAIN chats')
              => chats'[c].title = chats[c].title]_vars

\* C5: a session that only sends have changed (none of its rows is marked
\* regenerated) holds an even number of rows while no request is in flight
\* on it: sends store a user row and an ai row, or nothing.
C5_SendsLeaveEvenCount ==
    \A c \in DOMAIN chats :
        (~BusyOn(c) /\ \A i \in 1..Len(messages) :
                           messages[i].chat = c => ~messages[i].regenerated)
            => Len(MessagesOf(c)) % 2 = 0

\* C6: the history query answers with exactly the rows of the session whose
\* regenerated flag is false; and when a regeneration succeeds, the history
\* of the session holds the row it appended and not the row it marked.
C6_HistoryShowsExactlyLiveRows ==
    [][\A w \in Workers :
          /\ (req[w].pc = "h_query" /\ req'[w].pc = "done") =>
                LET live == LiveRowsIn(messages, req[w].chat.id)
                IN  /\ req'[w].resp.status = 200
                    /\ Len(req'[w].resp.messages) = Len(live)
                    /\ \A i \in 1..Len(live) :
                          /\ req'[w].resp.messages[i].sender = live[i].sender
                          /\ req'[w].resp.messages[i].content = live[i].content
                          /\ req'[w].resp.messages[i].model_name = live[i].model_name
                          /\ req'[w].resp.messages[i].temperature = live[i].temperature
          /\ (req[w].pc = "r_create" /\ req'[w].resp.status = 200) =>
                LET shown == LiveRowsIn(messages', req[w].chat.id)
                IN  /\ \E i \in 1..Len(shown) :
                          /\ shown[i].id = nextMsgId
                          /\ shown[i].sender = "ai"
                          /\ JStr(shown[i].content) = req'[w].resp.content
                    /\ \A i \in 1..Len(shown) :
                          shown[i].id # req[w].last_ai_message.id]_vars

\* C6 witness: a history query has answered for a session that holds a
\* superseded answer and its replacement.
C6_Witness ==
    \E w \in Workers :
        /\ req[w].pc = "done" /\ req[w].op = "history" /\ req[w].resp.status = 200
        /\ req[w].resp.messages # <<>>
        /\ \E i \in 1..Len(messages) :
              messages[i].chat = req[w].chat_id /\ messages[i].regenerated
        /\ \E i \in 1..Len(messages) :
              /\ messages[i].chat = req[w].chat_id /\ ~messages[i].regenerated
              /\ messages[i].sender = "ai"


\* Row i of the store is still there after the step, with the same id.
Kept(i) == \E j \in 1..Len(messages') : messages'[j].id = messages[i].id

\* C7: regeneration is monotonic: a row's flag never goes back to false, no
\* other attribute of a row changes, a row leaves the store only together
\* with its session, and the row a regeneration marks is, at that moment,
\* the newest ai row of the session not yet marked.
C7_RegenerationMonotonic ==
    [][/\ \A i \in 1..Len(messages) :
            /\ \A j \in 1..Len(messages') :
                  messages'[j].id = messages[i].id =>
                      /\ [messages'[j] EXCEPT !.regenerated = FALSE]
                            = [messages[i] EXCEPT !.regenerated = FALSE]
                      /\ messages[i].regenerated => messages'[j].regenerated
            /\ ~Kept(i) => messages[i].chat \notin DOMAIN chats'
       /\ \A w \in Workers :
            (req[w].pc = "r_mark" /\ req'[w].pc = "r_recent") =>
                LET ai == SelectSeq(LiveRowsIn(messages, req[w].chat.id),
                                    LAMBDA m : m.sender = "ai")
                IN  /\ ai # <<>>
                    /\ ai[Len(ai)].id = req[w].last_ai_message.id]_vars

\* C8: a regeneration on a session without an ai row whose flag is false is
\* answered 400, makes no upstream call and changes no row and no session.
C8_NothingToRegenerate ==
    [][\A w \in Workers :
          (/\ req[w].pc = "r_select"
           /\ req'[w] # req[w]
           /\ \A i \in 1..Len(messages) :
                 ~(/\ messages[i].chat = req[w].chat.id
                   /\ messages[i].sender = "ai"
                   /\ messages[i].regenerated = FALSE))
          => /\ req'[w].pc = "done"
             /\ req'[w].resp = ErrorResponse(400, "No AI message to regenerate.")
             /\ req'[w].upstream = 0
             /\ req'[w].created = 0
             /\ messages' = messages
             /\ chats' = chats]_vars

\* C8 witness: a regeneration was answered 400 on a session all of whose ai
\* rows are superseded.
C8_Witness ==
    \E w \in Workers :
        /\ req[w].pc = "done" /\ req[w].op = "regenerate"
        /\ req[w].resp = ErrorResponse(400, "No AI message to regenerate.")
        /\ \E i \in 1..Len(messages) :
              /\ messages[i].chat = req[w].chat_id
              /\ messages[i].sender = "ai" /\ messages[i].regenerated

\* The model name a worker is about to hand to the gateway.
ModelOfCall(w) ==
    IF req[w].pc = "s_call" THEN req[w].model_name
    ELSE req[w].last_user_message.model_name

\* The model names with an active configuration, read off the table.
ActiveNames == {m.name : m \in {n \in OpenAIModels : n.active}}

\* C9: a gateway call for a model name that is not an active configuration
\* raises before anything is sent upstream, and a send that fails this way
\* has inserted no row and leaves every session, titles included, as it was.
C9_UnknownModelFailsBeforeUpstream ==
    [][\A w \in Workers :
          (/\ req[w].pc \in {"s_call", "r_call"}
           /\ req'[w] # req[w]
           /\ ModelOfCall(w) \notin ActiveNames)
          => /\ req'[w].pc = "done"
             /\ req'[w].resp.status = 500
             /\ req'[w].logged = "ValueError"
             /\ req'[w].upstream = 0
             /\ messages' = messages
             /\ chats' = chats
             /\ req[w].op = "send" => req'[w].created = 0]_vars

\* C9 witness: a send has failed on the model lookup.
C9_Witness ==
    \E w \in Workers :
        /\ req[w].pc = "done" /\ req[w].op = "send"
        /\ req[w].logged = "ValueError" /\ req[w].resp.status = 500

\* C10: a request for a session that is not there, or is another
\* principal's, is answered 404 with one and the same response, and changes
\* nothing in the store.
C10_NotFoundIs404 ==
    [][\A w \in Workers :
          (/\ Free(w)
           /\ req'[w] # req[w]
           /\ req'[w].op \in {"send", "regenerate", "history", "delete"}
           /\ req'[w].chat_id # 0
           /\ ~(/\ req'[w].chat_id \in DOMAIN chats
                /\ chats[req'[w].chat_id].user = req'[w].user))
          => /\ req'[w].pc = "done"
             /\ req'[w].resp = ErrorResponse(404, "Not Found")
             /\ messages' = messages
             /\ chats' = chats]_vars


\* The sessions of a principal in a session table.
ChatsOf(table, user) == {c \in DOMAIN table : table[c].user = user}

\* C11: the delete statement removes the session and every row of it and
\* leaves every other session and every other row as it was; the answer that
\* follows gives a fresh empty session, named in new_chat_id, exactly when
\* the principal has no session left, and null otherwise, so that the
\* principal has a session when the delete has answered.
C11_DeleteRemovesOneSessionAndKeepsOne ==
    [][\A w \in Workers :
          /\ (req[w].pc = "d_delete" /\ req'[w].pc = "d_exists") =>
                LET c == req[w].chat.id
                IN  /\ c \notin DOMAIN chats'
                    /\ \A d \in DOMAIN chats \ {c} :
                          d \in DOMAIN chats' /\ chats'[d] = chats[d]
                    /\ DOMAIN chats' \subseteq DOMAIN chats
                    /\ \A j \in 1..Len(messages') : messages'[j].chat # c
                    /\ messages' = SelectSeq(messages, LAMBDA m : m.chat # c)
          /\ (req[w].pc = "d_exists" /\ req'[w].pc = "done") =>
                LET left == ChatsOf(chats, req[w].user)
                    new == req'[w].resp.new_chat_id
                IN  /\ req'[w].resp.status = 200
                    /\ messages' = messages
                    /\ ChatsOf(chats', req[w].user) # {}
                    /\ left # {} => (new = 0 /\ chats' = chats)
                    /\ left = {} =>
                          /\ new \notin DOMAIN chats
                          /\ ChatsOf(chats', req[w].user) = {new}
                          /\ chats'[new].title = <<>>
                          /\ \A d \in DOMAIN chats : chats'[d] = chats[d]
                          /\ \A j \in 1..Len(messages) : messages[j].chat # new]_vars

\* C11 witness: a delete has answered with a fresh session, the deleted
\* session is gone and rows of another session are still stored.
C11_Witness ==
    \E w \in Workers :
        /\ req[w].pc = "done" /\ req[w].op = "delete" /\ req[w].resp.status = 200
        /\ req[w].resp.new_chat_id \in DOMAIN chats
        /\ req[w].chat_id \notin DOMAIN chats
        /\ messages # <<>>


\* C12: no request posts to the upstream more than once; a request whose
\* post failed at transport level has posted exactly once, the gateway
\* raised the failure, the caller got status 500 and the request inserted
\* no row.
C12_NoRetryAndFailureSurfaced ==
    \A w \in Workers :
        /\ req[w].upstream <= 1
        /\ (req[w].pc = "done" /\ req[w].logged = "RequestException") =>
              /\ req[w].op \in {"send", "regenerate"}
              /\ req[w].upstream = 1
              /\ req[w].resp.status = 500
              /\ req[w].created = 0

\* C12 witness: a send and a regeneration have both ended on a transport
\* failure.
C12_Witness ==
    \E v, w \in Workers :
        /\ req[v].pc = "done" /\ req[v].op = "send"
        /\ req[v].logged = "RequestException"
        /\ req[w].pc = "done" /\ req[w].op = "regenerate"
        /\ req[w].logged = "RequestException"


\* C13: a send that names no model, with text, temperature and session id
\* in order, is not rejected as invalid input: it goes to the gateway, which
\* fails on the model only when no configuration is active.
C13_ModelIsOptional ==
    \A w \in Workers :
        (/\ req[w].pc = "done" /\ req[w].op = "send"
         /\ req[w].body.model = JNull
         /\ Truthy(req[w].body.message)
         /\ Truthy(req[w].body.temperature) /\ FloatOk(req[w].body.temperature)
         /\ Truthy(req[w].body.chat_id) /\ UuidOk(req[w].body.chat_id))
        => /\ req[w].resp.status # 400
           /\ req[w].logged = "ValueError" => ~SomeModelIsActive


\* C14: when a regeneration calls the gateway, the prompt that ends its
\* context is the content of the newest user row of the window it read, and
\* the row it marked is neither in that window nor is any regenerated row.
C14_PromptIsNewestUserMessage ==
    \A w \in Workers :
        req[w].pc = "r_call" =>
            LET recent == req[w].recent_messages
                context == RegenerateContext(recent, req[w].last_user_message)
            IN  /\ context[Len(context)].content = FirstUserOf(recent).content
                /\ \A i \in 1..Len(recent) :
                      /\ recent[i].id # req[w].last_ai_message.id
                      /\ ~recent[i].regenerated

\* C15: the gateway call of a regeneration, and the row the regeneration
\* inserts, carry the model and the temperature of the ai row that the
\* request marked regenerated.
C15_RegenerationKeepsParameters ==
    \A w \in Workers :
        req[w].pc \in {"r_call", "r_create"} =>
            /\ req[w].last_user_message.model_name = req[w].last_ai_message.model_name
            /\ req[w].last_user_message.temperature = req[w].last_ai_message.temperature


\* The stored row with a given id, NoRow if there is none.
StoredRow(id) ==
    LET found == SelectSeq(messages, LAMBDA m : m.id = id)
    IN  IF found = <<>> THEN NoRow ELSE found[1]

\* C16: the mark step of a regeneration writes the flag of the selected row,
\* which is still stored, and nothing else; from then on, before and after
\* the gateway call, the stored row is regenerated; the exits "no prompt"
\* and "gateway failed" change nothing in the store and insert no row; and
\* no step ever takes the flag of a stored row back.
C16_MarkPersistedAndNeverRolledBack ==
    [][/\ \A w \in Workers :
            /\ (req[w].pc = "r_mark" /\ req'[w].pc = "r_recent"
                  /\ StoredRow(req[w].last_ai_message.id) # NoRow) =>
                  /\ chats' = chats
                  /\ req[w].upstream = 0
                  /\ Len(messages') = Len(messages)
                  /\ \A i \in 1..Len(messages) :
                        messages'[i] =
                          IF messages[i].id = req[w].last_ai_message.id
                          THEN [messages[i] EXCEPT !.regenerated = TRUE]
                          ELSE messages[i]
            /\ (req[w].pc \in {"r_recent", "r_call"} /\ req'[w].pc = "done") =>
                  /\ req'[w].resp.status \in {400, 500}
                  /\ req'[w].created = 0
                  /\ messages' = messages
                  /\ chats' = chats
            /\ (req[w].pc \in {"r_recent", "r_call", "r_create"}
                  /\ StoredRow(req[w].last_ai_message.id) # NoRow) =>
                  StoredRow(req[w].last_ai_message.id).regenerated
       /\ \A i \in 1..Len(messages), j \in 1..Len(messages') :
            (messages[i].regenerated /\ messages'[j].id = messages[i].id)
               => messages'[j].regenerated]_vars

\* C16 witness: one regeneration has ended on "no prompt" and another on a
\* gateway failure, neither has inserted a row, and the answers they marked
\* are stored as regenerated.
C16_Witness ==
    \E v, w \in Workers :
        /\ req[v].pc = "done" /\ req[v].op = "regenerate"
        /\ req[v].resp.status = 400
        /\ req[v].resp.error = "No user message found for regeneration."
        /\ req[v].created = 0
        /\ req[w].pc = "done" /\ req[w].op = "regenerate"
        /\ req[w].resp.status = 500 /\ req[w].logged = "RequestException"
        /\ req[w].created = 0
        /\ Len(SelectSeq(messages, LAMBDA m : m.regenerated)) >= 3


\* C17: when a send reads its window, the context it builds from it is the
\* system message, then the newest min(5, n) of the n stored rows of the
\* session, oldest first, ai relabelled assistant, then the new user text.
C17_SendContextShape ==
    [][\A w \in Workers :
          (req[w].pc = "s_recent" /\ req'[w].pc = "s_call") =>
             LET rows == MessagesOf(req[w].chat.id)
                 n == Len(rows)
                 k == IF n < 5 THEN n ELSE 5
                 context == SendContext(req'[w].recent_messages, req'[w].message)
             IN  /\ Len(context) = k + 2
                 /\ context[1] = [role |-> "system", content |-> SystemPrompt]
                 /\ context[k + 2] = [role |-> "user", content |-> req[w].body.message.s]
                 /\ \A i \in 1..k :
                       /\ context[i + 1].content = rows[n - k + i].content
                       /\ context[i + 1].role =
                             IF rows[n - k + i].sender = "ai" THEN "assistant"
                             ELSE "user"]_vars

\* C17 witness: a send has read a full window out of a session that holds
\* more than five rows, newest row first.
C17_Witness ==
    \E w \in Workers :
        /\ req[w].pc = "s_call"
        /\ Len(req[w].recent_messages) = WindowSize
        /\ Len(MessagesOf(req[w].chat.id)) > WindowSize
        /\ req[w].recent_messages[1].id > req[w].recent_messages[WindowSize].id
        /\ req[w].recent_messages[1].content # req[w].recent_messages[2].content


\* C18: of the sends that name a model and a well-formed session id, those
\* whose text is missing or empty, or whose temperature is missing or does
\* not convert to a number, are answered 400 without a gateway call or an
\* insert, and all others, a temperature of 0 included, are not answered 400.
C18_ValidationRejectsExactlyBadInput ==
    \A w \in Workers :
        (/\ req[w].pc = "done" /\ req[w].op = "send"
         /\ Truthy(req[w].body.model)
         /\ Truthy(req[w].body.chat_id) /\ UuidOk(req[w].body.chat_id))
        => LET text == req[w].body.message
               temperature == req[w].body.temperature
               bad == \/ text = JNull \/ text = JStr(<<>>)
                      \/ temperature = JNull \/ ~FloatOk(temperature)
           IN  /\ bad => /\ req[w].resp.status = 400
                         /\ req[w].upstream = 0 /\ req[w].created = 0
               /\ ~bad => req[w].resp.status # 400


C20_FailedSendLeavesStoreUnchanged ==
    \A w \in Workers :
        (req[w].pc = "done" /\ req[w].op = "send" /\ req[w].resp.status # 200)
            => req[w].created = 0


\* C21: in every session the answers that are not regenerated are never
\* more than the user messages.
C21_LiveAnswersNeverExceedUserMessages ==
    \A c \in DOMAIN chats : Len(AiRows(c)) <= Len(UserRowsOf(c))


\* A delete of session c has been answered with success.
Deleted(c) ==
    \E w \in Workers :
        /\ req[w].pc = "done" /\ req[w].op = "delete"
        /\ req[w].resp.status = 200 /\ req[w].chat_id = c

\* C22: a session whose delete has been answered with success is not in the
\* store, no row is stored for it, and no list of sessions that is made
\* from then on names it.
C22_DeletionIsFinal ==
    [][\A c \in ChatIds :
          Deleted(c) =>
             /\ c \notin DOMAIN chats
             /\ \A i \in 1..Len(messages) : messages[i].chat # c
             /\ c \notin DOMAIN chats'
             /\ \A i \in 1..Len(messages') : messages'[i].chat # c
             /\ \A w \in Workers :
                   (req'[w].op = "list" /\ started' # started /\ FirstFree(w))
                      => \A e \in req'[w].resp.chats : e.chatId # c]_vars

====
